---- MODULE Spec2Model ----
(***************************************************************************)
(* Model of two scripts of scilpy:                                         *)
(*   scripts/scil_apply_warp_to_tractogram.py  (main, transform_tractogram)*)
(*   scripts/scil_connectivity_filter.py       (main, _filter)             *)
(* Real numbers are fixed-point integers:                                  *)
(*   affine entries in units of 1e-8, point coordinates in units of        *)
(*   1/128 mm, voxel coordinates in quarter voxels, displacement vectors   *)
(*   of the field in whole mm, POPULATION_PERC in tenths.                  *)
(***************************************************************************)
EXTENDS Integers, Sequences, FiniteSets, TLC

VARIABLES
    pc,                \* position in scil_apply_warp_to_tractogram
    args,              \* its arguments: entry, ref_ext, out_ext, field_source
    in_tractogram,     \* header and reference to the streamlines buffer
    heap,              \* streamlines buffers, by reference (0: the empty one)
    deformation,       \* the deformation image: affine, raw shape, voxel data
    deformation_data,  \* shape of the squeezed deformation array
    ref_header,        \* header used when saving
    new_tractogram,    \* the Tractogram built after the warp
    saved,             \* files written by nib.streamlines.save
    error,             \* exception that ended the run
    warp_called,       \* warp_tractogram has been entered
    nb_sampled,        \* points sampled by warp_tractogram
    before,            \* the input streamlines as loaded
    fpc,               \* position in scil_connectivity_filter
    fargs,             \* its arguments
    condition_counter,
    output_mask,
    fsaved,
    ferror

warpVars == <<pc, args, in_tractogram, heap, deformation, deformation_data,
              ref_header, new_tractogram, saved, error, warp_called,
              nb_sampled, before>>
filterVars == <<fpc, fargs, condition_counter, output_mask, fsaved, ferror>>
vars == <<warpVars, filterVars>>

-----------------------------------------------------------------------------
(* Bounds of the model *)
MaxStreamlines == 2
MaxMatrices == 2
NbElem == 2

-----------------------------------------------------------------------------
(* Fixed-point scales *)
AffineUnit == 10^8
SampleScale == 4 * 4 * 4
PointUnit == 2 * SampleScale
HalfMm == PointUnit \div 2

Abs(x) == IF x < 0 THEN -x ELSE x
Min(a, b) == IF a < b THEN a ELSE b

-----------------------------------------------------------------------------
(* Affines *)
Diag(sx, sy, sz, tx) ==
    << <<sx * AffineUnit, 0, 0, tx * AffineUnit>>,
       <<0, sy * AffineUnit, 0, 0>>,
       <<0, 0, sz * AffineUnit, 0>>,
       <<0, 0, 0, AffineUnit>> >>

Eye4 == Diag(1, 1, 1, 0)
ZoomShift == Diag(2, 2, 2, 1)

HeaderAffines == {Eye4, ZoomShift}

\* one entry of an affine moved by d units of 1e-8
Perturb(A, i, j, d) == [A EXCEPT ![i][j] = @ + d]

\* numpy.isclose with the default rtol = 1e-5 and atol = 1e-8:
\*   |a - b| <= atol + rtol * |b|, in units of 1e-8
IsClose(a, b) ==
    /\ Abs(a - b) <= 10000
    /\ 100000 * Abs(a - b) <= 100000 + Abs(b)

allclose_linear(A, B) ==
    \A i \in 1..3 : \A j \in 1..3 : IsClose(A[i][j], B[i][j])

allclose(A, B) ==
    \A i \in 1..4 : \A j \in 1..4 : IsClose(A[i][j], B[i][j])

-----------------------------------------------------------------------------
(* Shapes *)
squeeze(shape) == SelectSeq(shape, LAMBDA d : d # 1)
Shape3(shape) == SubSeq(shape, 1, Min(3, Len(shape)))
array_equal_size(a, b) == Len(a) = Len(b)
array_equal(a, b) == a = b

RawShapes == { <<2, 2, 2, 3>>, <<2, 2, 2, 1, 3>>, <<2, 2, 3, 3>>,
               <<1, 2, 2, 3>> }
Dimensions == { <<2, 2, 2>>, <<2, 2, 3>> }

-----------------------------------------------------------------------------
(* Streamlines *)
P0 == <<0, 0, 0>>
P1 == <<HalfMm, 2 * HalfMm, 3 * HalfMm>>
P2 == <<-HalfMm, 5 * HalfMm, 2 * HalfMm>>

StreamlineSet == << <<P0, P1>>, <<P1, P2, P0>> >>

\* n streamlines, taken in turn from StreamlineSet, starting after `first`
Collection(n, first) ==
    [s \in 1..n |-> StreamlineSet[((first + s) % Len(StreamlineSet)) + 1]]

Collections ==
    { Collection(n, first) :
          n \in 0..MaxStreamlines, first \in 1..Len(StreamlineSet) }

-----------------------------------------------------------------------------
(* The deformation image *)
FieldKinds == {"zero", "ramp"}

\* displacement vector (whole mm) stored at voxel (i, j, k)
Data(kind, i, j, k) ==
    IF kind = "zero" THEN <<0, 0, 0>> ELSE <<i + 1, j - k, 0 - (k + 1)>>

DeformationAffines(A) ==
    { A, Perturb(A, 1, 1, 1001), Perturb(A, 1, 1, 1002),
      Perturb(A, 1, 4, 2) }

-----------------------------------------------------------------------------
(* scilpy.utils.streamlines.warp_tractogram *)
Conventions == {"ants", "dipy"}

\* inverse of the reference affine (a zoom and a translation, invertible)
\* applied to a point: the voxel coordinate, in quarter voxels
worldToVoxel(transfo, p) ==
    [c \in 1..3 |->
        ((p[c] \div (PointUnit \div 4)) - 4 * (transfo[c][4] \div AffineUnit))
            \div (transfo[c][c] \div AffineUnit)]

Clamp(n, hi) == IF n < 0 THEN 0 ELSE IF n > hi THEN hi ELSE n
Weight(d, f) == IF d = 0 THEN 4 - f ELSE f

\* trilinear interpolation with edge clamping; the result is SampleScale
\* times the interpolated vector
sampleAt(kind, shape, q) ==
    LET i == q[1] \div 4
        j == q[2] \div 4
        k == q[3] \div 4
        fi == q[1] % 4
        fj == q[2] % 4
        fk == q[3] % 4
        term(dx, dy, dz, c) ==
            Weight(dx, fi) * Weight(dy, fj) * Weight(dz, fk)
              * Data(kind, Clamp(i + dx, shape[1] - 1),
                           Clamp(j + dy, shape[2] - 1),
                           Clamp(k + dz, shape[3] - 1))[c]
    IN  [c \in 1..3 |->
            term(0, 0, 0, c) + term(0, 0, 1, c) + term(0, 1, 0, c)
          + term(0, 1, 1, c) + term(1, 0, 0, c) + term(1, 0, 1, c)
          + term(1, 1, 0, c) + term(1, 1, 1, c)]

flip_xy(v) == <<0 - v[1], 0 - v[2], v[3]>>

\* p in units of 1/PointUnit mm, v in units of 1/SampleScale mm
ConventionRule(source, p, v) ==
    IF source = "ants"
    THEN [c \in 1..3 |-> p[c] - (PointUnit \div SampleScale) * flip_xy(v)[c]]
    ELSE [c \in 1..3 |-> p[c] + (PointUnit \div SampleScale) * v[c]]

SampledVector(transfo, kind, shape, p) ==
    sampleAt(kind, shape, worldToVoxel(transfo, p))

WarpPoint(transfo, kind, shape, source, p) ==
    ConventionRule(source, p, SampledVector(transfo, kind, shape, p))

NbPoints(streamlines) ==
    LET RECURSIVE Sum(_)
        Sum(n) == IF n = 0 THEN 0 ELSE Len(streamlines[n]) + Sum(n - 1)
    IN  Sum(Len(streamlines))

NoError == [type |-> "none", msg |-> ""]
UnsupportedConventionError ==
    [type |-> "UnsupportedConventionError", msg |-> "field_source"]
FieldShapeError == [type |-> "FieldShapeError", msg |-> "deformation_data"]

\* the outcome of warp_tractogram(streamlines, transfo, deformation_data,
\* field_source): the error raised, the streamlines buffer as it is left,
\* and the number of points sampled
warp_tractogram(streamlines, transfo, kind, shape, source) ==
    IF source \notin Conventions
    THEN [error |-> UnsupportedConventionError,
          streamlines |-> streamlines, sampled |-> 0]
    ELSE IF Len(shape) # 4
    THEN [error |-> FieldShapeError,
          streamlines |-> streamlines, sampled |-> 0]
    ELSE [error |-> NoError,
          streamlines |->
              [s \in 1..Len(streamlines) |->
                  [n \in 1..Len(streamlines[s]) |->
                      WarpPoint(transfo, kind, shape, source,
                                streamlines[s][n])]],
          sampled |-> NbPoints(streamlines)]

-----------------------------------------------------------------------------
(* scil_apply_warp_to_tractogram.py *)
Tags == Conventions \cup {"other"}
RefExtensions == {".trk", ".nii.gz", ".txt"}
OutExtensions == {".trk", ".tck", ".vtk"}

AffineError == [type |-> "ValueError", msg |-> "Both affines are not equal"]
DimensionError ==
    [type |-> "ValueError", msg |-> "Both dimensions are not equal"]
ChoiceError == [type |-> "SystemExit", msg |-> "invalid choice"]
FormatError == [type |-> "SystemExit", msg |-> "is an unsupported format."]
UnboundError == [type |-> "UnboundLocalError", msg |-> "ref_header"]

NoTractogram == [streamlines |-> 0, affine_to_rasmm |-> <<>>]

FilterIdle ==
    /\ fpc = "idle"
    /\ fargs = <<>>
    /\ condition_counter = 0
    /\ output_mask = <<>>
    /\ fsaved = <<>>
    /\ ferror = "none"

Init ==
    /\ \E e \in {"main", "direct"}, r \in RefExtensions,
          o \in OutExtensions, t \in Tags :
          /\ e = "direct" => r # ".txt"
          /\ args = [entry |-> e, ref_ext |-> r, out_ext |-> o,
                     field_source |-> t]
          /\ pc = IF e = "main" THEN "main" ELSE "load"
    /\ \E A \in HeaderAffines, d \in Dimensions :
          /\ in_tractogram = [header |-> [voxel_to_rasmm |-> A,
                                          dimensions |-> d],
                              streamlines |-> 1]
          /\ \E B \in DeformationAffines(A), sh \in RawShapes,
                k \in FieldKinds :
                deformation = [affine |-> B, shape |-> sh, kind |-> k]
    /\ \E c \in Collections :
          /\ heap = (0 :> <<>>) @@ (1 :> c)
          /\ before = c
    /\ deformation_data = <<>>
    /\ ref_header = "unbound"
    /\ new_tractogram = NoTractogram
    /\ saved = <<>>
    /\ error = NoError
    /\ warp_called = FALSE
    /\ nb_sampled = 0
    /\ FilterIdle

Fail(e) ==
    /\ pc' = "failed"
    /\ error' = e

\* main(): lines 88-107
ParserAcceptsAny(source) == source = source
ParserAccepts(source) == source \in {"ants", "dipy"}

Main ==
    /\ pc = "main"
    /\ IF ~ParserAccepts(args.field_source)
       THEN Fail(ChoiceError)
       ELSE IF args.ref_ext # ".trk" /\ args.ref_ext \notin {".nii", ".nii.gz"}
       THEN Fail(FormatError)
       ELSE pc' = "load" /\ error' = error
    /\ UNCHANGED <<args, in_tractogram, heap, deformation, deformation_data,
                   ref_header, new_tractogram, saved, warp_called,
                   nb_sampled, before>>

\* transform_tractogram: lines 25-41
RefHeader(out_ext, ref_ext) ==
    IF out_ext = ".trk"
    THEN IF ref_ext = ".trk" THEN "trk_header" ELSE "anat_header"
    ELSE IF out_ext = ".tck" THEN "tck_empty_header" ELSE "unbound"

\* the loading followed directly by the dimension check
LoadThenDimensions ==
    /\ pc = "load"
    /\ ref_header' = RefHeader(args.out_ext, args.ref_ext)
    /\ deformation_data' = squeeze(deformation.shape)
    /\ pc' = "check_dims"
    /\ UNCHANGED <<args, in_tractogram, heap, deformation, new_tractogram,
                   saved, error, warp_called, nb_sampled, before>>

Load ==
    /\ pc = "load"
    /\ ref_header' = RefHeader(args.out_ext, args.ref_ext)
    /\ deformation_data' = squeeze(deformation.shape)
    /\ pc' = "check_affine"
    /\ UNCHANGED <<args, in_tractogram, heap, deformation, new_tractogram,
                   saved, error, warp_called, nb_sampled, before>>

\* the affine check on the linear part only
CheckAffineLinear ==
    /\ pc = "check_affine"
    /\ IF ~allclose_linear(deformation.affine,
                           in_tractogram.header.voxel_to_rasmm)
       THEN Fail(AffineError)
       ELSE pc' = "check_dims" /\ error' = error
    /\ UNCHANGED <<args, in_tractogram, heap, deformation, deformation_data,
                   ref_header, new_tractogram, saved, warp_called,
                   nb_sampled, before>>

\* lines 43-45
CheckAffine ==
    /\ pc = "check_affine"
    /\ IF ~allclose(deformation.affine, in_tractogram.header.voxel_to_rasmm)
       THEN Fail(AffineError)
       ELSE pc' = "check_dims" /\ error' = error
    /\ UNCHANGED <<args, in_tractogram, heap, deformation, deformation_data,
                   ref_header, new_tractogram, saved, warp_called,
                   nb_sampled, before>>

\* lines 47-49
CheckDimensions ==
    /\ pc = "check_dims"
    /\ IF ~array_equal(Shape3(deformation_data),
                       in_tractogram.header.dimensions)
       THEN Fail(DimensionError)
       ELSE pc' = "warp" /\ error' = error
    /\ UNCHANGED <<args, in_tractogram, heap, deformation, deformation_data,
                   ref_header, new_tractogram, saved, warp_called,
                   nb_sampled, before>>

\* the warp called with the parser's default field_source
CallWarpDefault ==
    /\ pc = "warp"
    /\ LET transfo == in_tractogram.header.voxel_to_rasmm
           res == warp_tractogram(heap[in_tractogram.streamlines], transfo,
                                  deformation.kind, deformation_data, "ants")
       IN  /\ warp_called' = TRUE
           /\ nb_sampled' = res.sampled
           /\ heap' = [heap EXCEPT ![in_tractogram.streamlines] =
                                       res.streamlines]
           /\ IF res.error # NoError
              THEN Fail(res.error)
              ELSE pc' = "build" /\ error' = error
    /\ UNCHANGED <<args, in_tractogram, deformation, deformation_data,
                   ref_header, new_tractogram, saved, before>>

\* the warp applied to a copy of the streamlines
CallWarpCopy ==
    /\ pc = "warp"
    /\ LET transfo == in_tractogram.header.voxel_to_rasmm
           res == warp_tractogram(heap[in_tractogram.streamlines], transfo,
                                  deformation.kind, deformation_data,
                                  args.field_source)
       IN  /\ warp_called' = TRUE
           /\ nb_sampled' = res.sampled
           /\ heap' = heap @@ (2 :> res.streamlines)
           /\ IF res.error # NoError
              THEN Fail(res.error)
              ELSE pc' = "build" /\ error' = error
    /\ UNCHANGED <<args, in_tractogram, deformation, deformation_data,
                   ref_header, new_tractogram, saved, before>>

\* lines 51-54: the warp is applied in place, to the buffer of in_tractogram
CallWarp ==
    /\ pc = "warp"
    /\ LET transfo == in_tractogram.header.voxel_to_rasmm
           res == warp_tractogram(heap[in_tractogram.streamlines], transfo,
                                  deformation.kind, deformation_data,
                                  args.field_source)
       IN  /\ warp_called' = TRUE
           /\ nb_sampled' = res.sampled
           /\ heap' = [heap EXCEPT ![in_tractogram.streamlines] =
                                       res.streamlines]
           /\ IF res.error # NoError
              THEN Fail(res.error)
              ELSE pc' = "build" /\ error' = error
    /\ UNCHANGED <<args, in_tractogram, deformation, deformation_data,
                   ref_header, new_tractogram, saved, before>>

\* lines 56-57: Tractogram() keeps a shallow copy of the ArraySequence
TractogramDefault(streamlines, affine) ==
    [streamlines |-> 0, affine_to_rasmm |-> affine]

Tractogram(streamlines, affine) ==
    [streamlines |-> streamlines, affine_to_rasmm |-> affine]

BuildWithHeaderAffine ==
    /\ pc = "build"
    /\ new_tractogram' = Tractogram(in_tractogram.streamlines,
                                    in_tractogram.header.voxel_to_rasmm)
    /\ pc' = "save"
    /\ UNCHANGED <<args, in_tractogram, heap, deformation, deformation_data,
                   ref_header, saved, error, warp_called, nb_sampled, before>>

\* lines 56-57
Build ==
    /\ pc = "build"
    /\ new_tractogram' = Tractogram(in_tractogram.streamlines, Eye4)
    /\ pc' = "save"
    /\ UNCHANGED <<args, in_tractogram, heap, deformation, deformation_data,
                   ref_header, saved, error, warp_called, nb_sampled, before>>

\* line 58
Save ==
    /\ pc = "save"
    /\ IF ref_header = "unbound"
       THEN Fail(UnboundError) /\ saved' = saved
       ELSE /\ saved' = Append(saved,
                   [streamlines |-> heap[new_tractogram.streamlines],
                    affine_to_rasmm |-> new_tractogram.affine_to_rasmm,
                    header |-> ref_header])
            /\ pc' = "done"
            /\ error' = error
    /\ UNCHANGED <<args, in_tractogram, heap, deformation, deformation_data,
                   ref_header, new_tractogram, warp_called, nb_sampled,
                   before>>

Next ==
    \/ (Main /\ UNCHANGED filterVars)
    \/ (Load /\ UNCHANGED filterVars)
    \/ (CheckAffine /\ UNCHANGED filterVars)
    \/ (CheckDimensions /\ UNCHANGED filterVars)
    \/ (CallWarp /\ UNCHANGED filterVars)
    \/ (Build /\ UNCHANGED filterVars)
    \/ (Save /\ UNCHANGED filterVars)

Spec == Init /\ [][Next]_vars

-----------------------------------------------------------------------------
(* Properties of scil_apply_warp_to_tractogram.py *)

\* transform_tractogram has been entered
Entered == deformation_data # <<>>
AffinesMatch ==
    allclose(deformation.affine, in_tractogram.header.voxel_to_rasmm)
InputBuffer == heap[in_tractogram.streamlines]
WarpReturned == pc \in {"build", "save", "done"}
Terminated == pc \in {"done", "failed"}
Transfo == in_tractogram.header.voxel_to_rasmm

\* C1: when the affine of the deformation is not close to voxel_to_rasmm of
\* the input tractogram, transform_tractogram ends with the affine error,
\* warp_tractogram is never called and nothing is saved, whatever the
\* dimensions and the field_source.
C1_AffineMismatchFails ==
    (Entered /\ ~AffinesMatch) =>
        /\ ~warp_called
        /\ nb_sampled = 0
        /\ saved = <<>>
        /\ InputBuffer = before
        /\ pc \in {"check_affine", "failed"}
        /\ pc = "failed" => error = AffineError

C1_Witness ==
    /\ pc = "failed"
    /\ error = AffineError
    /\ Shape3(deformation_data) # in_tractogram.header.dimensions
    /\ args.field_source = "other"
    /\ Transfo = Eye4
    /\ deformation.affine[1][4] = 2

\* C2 as stated: whenever the first three dimensions of the deformation field
\* differ from the dimensions of the tractogram, transform_tractogram ends
\* with the dimension failure, of a kind other than the affine failure, and
\* nothing is saved.
C2_Original ==
    (Entered /\ Shape3(deformation.shape) # in_tractogram.header.dimensions
             /\ pc \notin {"check_affine", "check_dims"}) =>
        /\ pc = "failed"
        /\ error = DimensionError
        /\ error.type # AffineError.type
        /\ saved = <<>>

\* C2 amended: when the affine check passed and the first three dimensions of
\* the squeezed deformation array differ from the dimensions of the
\* tractogram, transform_tractogram ends with ValueError('Both dimensions are
\* not equal'): the same exception class as the affine failure, told apart
\* by its message only; warp_tractogram is not called and nothing is saved.
C2_DimensionMismatchFails ==
    (Entered /\ AffinesMatch
             /\ Shape3(squeeze(deformation.shape))
                    # in_tractogram.header.dimensions
             /\ pc \notin {"check_affine", "check_dims"}) =>
        /\ pc = "failed"
        /\ error = DimensionError
        /\ error.msg # AffineError.msg
        /\ error.type = AffineError.type
        /\ ~warp_called
        /\ saved = <<>>

C2_Witness ==
    /\ pc = "failed"
    /\ error = DimensionError
    /\ AffinesMatch
    /\ deformation.affine # Transfo
    /\ deformation.shape = <<2, 2, 3, 3>>
    /\ in_tractogram.header.dimensions = <<2, 2, 2>>

\* C3 as stated: after the warp step returned, the input tractogram's points
\* are what they were before the call and the output does not share the
\* input's buffer.
C3_Original ==
    WarpReturned =>
        /\ InputBuffer = before
        /\ new_tractogram # NoTractogram =>
               new_tractogram.streamlines # in_tractogram.streamlines

\* C3 amended: the warp is applied in place: after the warp step returned,
\* the streamlines of the input tractogram hold the warped points, the
\* Tractogram built from them shares the input's buffer, and the file saved
\* holds that buffer's content.
C3_WarpInPlace ==
    WarpReturned =>
        /\ InputBuffer =
               [s \in 1..Len(before) |->
                   [n \in 1..Len(before[s]) |->
                       WarpPoint(Transfo, deformation.kind, deformation_data,
                                 args.field_source, before[s][n])]]
        /\ DOMAIN heap = {0, 1}
        /\ new_tractogram # NoTractogram =>
               new_tractogram.streamlines = in_tractogram.streamlines
        /\ pc = "done" => saved[1].streamlines = InputBuffer

C3_Witness ==
    /\ pc = "done"
    /\ InputBuffer # before
    /\ Len(before) = MaxStreamlines

\* C4 as stated: a field_source other than 'ants' and 'dipy' ends the run
\* with UnsupportedConventionError, before any point is sampled, from main
\* and from a direct call of transform_tractogram.
C4_Original ==
    (args.field_source \notin {"ants", "dipy"} /\ Terminated) =>
        /\ pc = "failed"
        /\ error = UnsupportedConventionError
        /\ nb_sampled = 0

\* C4 amended: a field_source other than 'ants' and 'dipy' never reaches the
\* sampling of a point and never produces output. From main it is refused
\* by the argument parser before transform_tractogram is entered; a direct
\* call of transform_tractogram ends with the affine or the dimension
\* ValueError when the geometry does not match, and otherwise with
\* UnsupportedConventionError raised on entry of warp_tractogram.
C4_UnsupportedConvention ==
    args.field_source \notin {"ants", "dipy"} =>
        /\ nb_sampled = 0
        /\ InputBuffer = before
        /\ saved = <<>>
        /\ pc \notin {"build", "save", "done"}
        /\ args.entry = "main" =>
              /\ ~Entered
              /\ ~warp_called
              /\ pc = "failed" => error = ChoiceError
        /\ (args.entry = "direct" /\ pc = "failed") =>
              /\ error \in {AffineError, DimensionError,
                            UnsupportedConventionError}
              /\ error = UnsupportedConventionError <=> warp_called

C4_Witness ==
    /\ args.entry = "direct"
    /\ args.field_source = "other"
    /\ pc = "failed"
    /\ error = UnsupportedConventionError
    /\ warp_called
    /\ Len(before) > 0

\* C5: a successful warp keeps the number of streamlines, the number of
\* points of each streamline and their order, in the buffer and in the file
\* saved.
SameCounts(out, in) ==
    /\ Len(out) = Len(in)
    /\ \A s \in 1..Len(in) : Len(out[s]) = Len(in[s])

C5_CountsPreserved ==
    /\ WarpReturned =>
          /\ SameCounts(InputBuffer, before)
          /\ nb_sampled = NbPoints(before)
          /\ \A s \in 1..Len(before) : \A n \in 1..Len(before[s]) :
                InputBuffer[s][n] =
                    WarpPoint(Transfo, deformation.kind, deformation_data,
                              args.field_source, before[s][n])
    /\ pc = "done" =>
          /\ Len(saved) = 1
          /\ SameCounts(saved[1].streamlines, before)

C5_Witness ==
    /\ pc = "done"
    /\ Len(before) = 2
    /\ Len(before[1]) # Len(before[2])
    /\ saved[1].streamlines # before

\* C6: per point, 'ants' gives point - (-v0, -v1, v2) and 'dipy' gives
\* point + (v0, v1, v2), v the sampled vector: both give p + v on the first
\* two components, they differ by 2 * v2 on the third, and a zero field
\* leaves every point unchanged.
VectorAt(p) ==
    LET v == SampledVector(Transfo, deformation.kind, deformation_data, p)
    IN  [c \in 1..3 |-> (PointUnit \div SampleScale) * v[c]]

C6_ConventionRule ==
    WarpReturned =>
        /\ \A s \in 1..Len(before) : \A n \in 1..Len(before[s]) :
              LET p == before[s][n]
                  sv == SampledVector(Transfo, deformation.kind,
                                      deformation_data, p)
                  v == [c \in 1..3 |-> (PointUnit \div SampleScale) * sv[c]]
                  q == InputBuffer[s][n]
                  a == ConventionRule("ants", p, sv)
                  d == ConventionRule("dipy", p, sv)
              IN  /\ args.field_source = "ants" =>
                        q = <<p[1] + v[1], p[2] + v[2], p[3] - v[3]>>
                  /\ args.field_source = "dipy" =>
                        q = <<p[1] + v[1], p[2] + v[2], p[3] + v[3]>>
                  /\ a[1] = d[1]
                  /\ a[2] = d[2]
                  /\ d[3] - a[3] = 2 * v[3]
        /\ deformation.kind = "zero" => InputBuffer = before

C6_Witness ==
    /\ pc = "done"
    /\ args.field_source = "dipy"
    /\ Len(before) > 0
    /\ VectorAt(before[1][2])[3] # 0
    /\ VectorAt(before[1][2])[1] # 0
    /\ VectorAt(before[1][2])[3] % PointUnit # 0

\* C7: the Tractogram saved by a successful transform_tractogram has the 4x4
\* identity as affine_to_rasmm, whatever the reference affine of the input,
\* the field_source and the reference and output file types.
C7_IdentityAffine ==
    /\ pc \in {"save", "done"} =>
          \A i \in 1..4 : \A j \in 1..4 :
              new_tractogram.affine_to_rasmm[i][j] =
                  IF i = j THEN AffineUnit ELSE 0
    /\ pc = "done" =>
          \A i \in 1..4 : \A j \in 1..4 :
              saved[1].affine_to_rasmm[i][j] = IF i = j THEN AffineUnit ELSE 0

C7_Witness ==
    /\ pc = "done"
    /\ Transfo = ZoomShift
    /\ args.out_ext = ".tck"
    /\ args.ref_ext = ".nii.gz"
    /\ args.entry = "main"

\* C11: the steps of transform_tractogram come in the order affine check,
\* dimension check, warp, save: each step is entered only from the one before
\* it and only when that one passed, the warp is called only with both
\* geometry checks passed, a file is saved only after the warp returned, and
\* with the affine and the dimensions both mismatching the failure is the
\* affine one.
DimensionsMatch ==
    Shape3(squeeze(deformation.shape)) = in_tractogram.header.dimensions

C11_StepOrder ==
    /\ [](warp_called => (AffinesMatch /\ DimensionsMatch))
    /\ [](pc \in {"warp", "build", "save", "done"} =>
              (AffinesMatch /\ DimensionsMatch))
    /\ [](pc \in {"build", "save", "done"} => warp_called)
    /\ [](saved # <<>> => (pc = "done" /\ warp_called /\ error = NoError))
    /\ []((Entered /\ pc = "failed" /\ ~AffinesMatch /\ ~DimensionsMatch) =>
              error = AffineError)
    /\ []((pc = "failed" /\ error = DimensionError) => AffinesMatch)
    /\ [][ /\ pc' = "check_affine" => pc = "load"
           /\ pc' = "check_dims" => pc = "check_affine"
           /\ pc' = "warp" => pc = "check_dims"
           /\ pc' = "build" => (pc = "warp" /\ warp_called')
           /\ pc' = "save" => pc = "build"
           /\ pc' = "done" => (pc = "save" /\ saved' # <<>>)
           /\ (pc' = "failed" /\ error' = AffineError) => pc = "check_affine"
           /\ (pc' = "failed" /\ error' = DimensionError) => pc = "check_dims"
         ]_vars

C11_Witness ==
    /\ pc = "failed"
    /\ error = AffineError
    /\ ~AffinesMatch
    /\ ~DimensionsMatch
    /\ args.field_source = "ants"
    /\ Transfo = Eye4
    /\ deformation.affine[1][1] = AffineUnit + 1002
    /\ deformation.shape = <<1, 2, 2, 3>>

-----------------------------------------------------------------------------
(* scil_connectivity_filter.py *)
\* a matrix is flattened: element e of 1..NbElem
Values == {0, 2}
Thresholds == {1, 2}
\* POPULATION_PERC, in tenths
Percs == {0, 5, 10}
MaxConditions == 1

MatrixSet == [1..NbElem -> Values]
MatricesLists == UNION { [1..n -> MatrixSet] : n \in 1..MaxMatrices }
\* one occurrence of --lower_than or --greater_than:
\* MATRICES_LIST VALUE_THR POPULATION_PERC
InputLists == [matrices : MatricesLists, value_thr : Thresholds,
               perc : Percs]
ConditionLists == UNION { [1..n -> InputLists] : n \in 0..MaxConditions }

Zeros == [e \in 1..NbElem |-> 0]

\* number of matrices of the list in which element e compares with the
\* threshold: matrices < value_threshold for 'lower', > otherwise
population_score(input_list, condition, e) ==
    Cardinality({ m \in 1..Len(input_list.matrices) :
                    IF condition = "lower"
                    THEN input_list.matrices[m][e] < input_list.value_thr
                    ELSE input_list.matrices[m][e] > input_list.value_thr })

\* int(float(input_list[-1]) * matrices.shape[-1])
population_threshold(input_list) ==
    (input_list.perc * Len(input_list.matrices)) \div 10

\* _filter(input_list, condition): lines 90-111
_filter(input_list, condition) ==
    [e \in 1..NbElem |->
        population_score(input_list, condition, e)
            > population_threshold(input_list)]

\* output_mask[filter_mask] += 1
AddMask(mask, filter_mask) ==
    [e \in 1..NbElem |-> IF filter_mask[e] THEN mask[e] + 1 ELSE mask[e]]

\* a for loop of main over a list of conditions, each run through _filter
RECURSIVE RunLoop(_, _, _, _)
RunLoop(lists, condition, n, mask) ==
    IF n = 0 THEN mask
    ELSE AddMask(RunLoop(lists, condition, n - 1, mask),
                 _filter(lists[n], condition))

MaxOf(mask) == CHOOSE v \in {mask[e] : e \in 1..NbElem} :
                   \A e \in 1..NbElem : mask[e] <= v

\* scilpy.image.volume_math.invert on a binary mask
invert(mask) == [e \in 1..NbElem |-> IF mask[e] # 0 THEN 0 ELSE 1]

WarpIdle ==
    /\ pc = "idle"
    /\ args = <<>>
    /\ in_tractogram = <<>>
    /\ heap = <<>>
    /\ deformation = <<>>
    /\ deformation_data = <<>>
    /\ ref_header = "unbound"
    /\ new_tractogram = NoTractogram
    /\ saved = <<>>
    /\ error = NoError
    /\ warp_called = FALSE
    /\ nb_sampled = 0
    /\ before = <<>>

FilterInit ==
    /\ fpc = "main"
    /\ \E l \in ConditionLists, g \in ConditionLists,
          k \in BOOLEAN, i \in BOOLEAN :
          fargs = [lower_than |-> l, greater_than |-> g,
                   keep_condition_count |-> k, inverse_mask |-> i]
    /\ condition_counter = 0
    /\ output_mask = <<>>
    /\ fsaved = <<>>
    /\ ferror = "none"
    /\ WarpIdle

\* lines 115-137
FilterMain ==
    /\ fpc = "main"
    /\ IF Len(fargs.lower_than) = 0 /\ Len(fargs.greater_than) = 0
       THEN /\ fpc' = "failed"
            /\ ferror' = "At least one of the two options is required."
            /\ UNCHANGED <<condition_counter, output_mask>>
       ELSE /\ fpc' = "lower_loop"
            /\ condition_counter' = 0
            /\ output_mask' = Zeros
            /\ ferror' = ferror
    /\ UNCHANGED <<fargs, fsaved>>

\* lines 139-142
LowerLoop ==
    /\ fpc = "lower_loop"
    /\ condition_counter' = condition_counter + Len(fargs.lower_than)
    /\ output_mask' = RunLoop(fargs.lower_than, "lower",
                              Len(fargs.lower_than), output_mask)
    /\ fpc' = "second_loop"
    /\ UNCHANGED <<fargs, fsaved, ferror>>

\* lines 144-147: the loop runs over args.lower_than, with the condition
\* 'gteater', which _filter treats as not 'lower'
SecondLoop ==
    /\ fpc = "second_loop"
    /\ condition_counter' = condition_counter + Len(fargs.lower_than)
    /\ output_mask' = RunLoop(fargs.lower_than, "gteater",
                              Len(fargs.lower_than), output_mask)
    /\ fpc' = "binarize"
    /\ UNCHANGED <<fargs, fsaved, ferror>>

\* lines 149-151
Binarize ==
    /\ fpc = "binarize"
    /\ output_mask' =
          IF ~fargs.keep_condition_count
          THEN [e \in 1..NbElem |->
                   IF output_mask[e] < condition_counter THEN 0
                   ELSE IF output_mask[e] > 0 THEN 1 ELSE output_mask[e]]
          ELSE output_mask
    /\ fpc' = "inverse"
    /\ UNCHANGED <<fargs, condition_counter, fsaved, ferror>>

\* lines 153-157
Inverse ==
    /\ fpc = "inverse"
    /\ output_mask' =
          IF fargs.inverse_mask
          THEN IF fargs.keep_condition_count
               THEN [e \in 1..NbElem |->
                        Abs(output_mask[e] - MaxOf(output_mask))]
               ELSE invert(output_mask)
          ELSE output_mask
    /\ fpc' = "save"
    /\ UNCHANGED <<fargs, condition_counter, fsaved, ferror>>

\* lines 172-173: output_mask.astype(np.uint8)
SaveMatrix ==
    /\ fpc = "save"
    /\ fsaved' = [e \in 1..NbElem |-> output_mask[e] % 256]
    /\ fpc' = "saved"
    /\ UNCHANGED <<fargs, condition_counter, output_mask, ferror>>

FilterNext ==
    \/ (FilterMain /\ UNCHANGED warpVars)
    \/ (LowerLoop /\ UNCHANGED warpVars)
    \/ (SecondLoop /\ UNCHANGED warpVars)
    \/ (Binarize /\ UNCHANGED warpVars)
    \/ (Inverse /\ UNCHANGED warpVars)
    \/ (SaveMatrix /\ UNCHANGED warpVars)

FilterSpec == FilterInit /\ [][FilterNext]_vars

-----------------------------------------------------------------------------
(* Properties of scil_connectivity_filter.py *)

\* element e passes every --lower_than and every --greater_than condition of
\* the command line, each evaluated by _filter on its own matrices
AllRespected(e) ==
    /\ \A n \in 1..Len(fargs.lower_than) :
          _filter(fargs.lower_than[n], "lower")[e]
    /\ \A n \in 1..Len(fargs.greater_than) :
          _filter(fargs.greater_than[n], "greater")[e]

\* C8: without --keep_condition_count and --inverse_mask, an element of the
\* mask saved is 1 exactly when it passes every --lower_than and every
\* --greater_than condition, and 0 otherwise.
C8_Intersection ==
    (fpc = "saved" /\ ~fargs.keep_condition_count /\ ~fargs.inverse_mask) =>
        \A e \in 1..NbElem :
            /\ fsaved[e] \in {0, 1}
            /\ fsaved[e] = 1 <=> AllRespected(e)

\* C9: an element whose comparison holds in at least POPULATION_PERC of the
\* N matrices of a condition (c >= POPULATION_PERC * N) passes _filter: after
\* the loop over --lower_than it has been counted for that condition.
C9_AtLeastPopulationPerc ==
    fpc = "second_loop" =>
        \A e \in 1..NbElem :
            (\A n \in 1..Len(fargs.lower_than) :
                LET il == fargs.lower_than[n]
                IN  10 * population_score(il, "lower", e)
                        >= il.perc * Len(il.matrices))
            => output_mask[e] = Len(fargs.lower_than)

\* C10: with --inverse_mask, an element of the mask saved is 0 exactly when it
\* respects all the conditions, and non-zero (1 without
\* --keep_condition_count) when at least one condition fails.
C10_InverseMask ==
    (fpc = "saved" /\ fargs.inverse_mask) =>
        \A e \in 1..NbElem :
            /\ fsaved[e] = 0 <=> AllRespected(e)
            /\ ~fargs.keep_condition_count => fsaved[e] \in {0, 1}

====
